---- MODULE Spec2Model ----
(***************************************************************************)
(* NewsHub backend: the video lifecycle and settlement pipeline.           *)
(*                                                                         *)
(* The Flask application serves requests on several worker threads         *)
(* (app.run(threaded=True), src/backend/app.py:205-210).  A worker is a    *)
(* slot that runs one handler at a time; a handler that reads the video    *)
(* store and later writes it takes two steps, so that two workers can      *)
(* interleave between the read and the write.                              *)
(*                                                                         *)
(* The video store is reached through db.get_video_by_id,                  *)
(* db.admin_verify_video and db.create_video.  Their callers are in the    *)
(* source; their bodies are not, and are written here from the data model  *)
(* of the specification (a keyed record store with plain reads, inserts    *)
(* and updates).                                                           *)
(*                                                                         *)
(* Spec is the request handling from an empty store.  SpecLedger starts    *)
(* from a store that holds an approved video and adds the clock and the    *)
(* license download.  SpecRoyalty and SpecModeration call the royalty      *)
(* calculator and the moderation gate on each of a bounded set of inputs.  *)
(***************************************************************************)
EXTENDS Integers, Sequences, FiniteSets, TLC

\* ------------------------------------------------------------------ bounds

\* Worker threads serving requests concurrently.
NumWorkers == 2

\* Requests issued in one behaviour.
MaxRequests == 3

\* --------------------------------------------------------- program constants

MinRating == 1
MaxRating == 5
ApproveRating == 3
PremiumPrice == 15000
MockPrice2 == 12000
PaisePerRupee == 100
VerifyVideoParams == 1
RejectCallArgs == 2
LicenseDays == 90
UnsafeFloor == 50
NudityThreshold == 60
PartThreshold == 70
FullScore == 100
EpochYear == 2026
ViewWeight == 6
LikeWeight == 3
FreshWeight == 1

\* ------------------------------------------------------------------ values

Workers == 1..NumWorkers

\* Ids the repository's own fixtures use for videos.
VideoIds == {"video-001", "video-002"}

PENDING == "PENDING"
APPROVED == "APPROVED"
REJECTED == "REJECTED"
SOLD == "SOLD"
VideoStatus == {PENDING, APPROVED, REJECTED, SOLD}

\* Python's None for a video lookup; a rating is <<>> (None) or <<r>>.
None == [exists |-> FALSE, status |-> "", rating |-> <<>>, price |-> 0]

\* An optional JSON field is <<>> when the body does not carry it, <<x>> otherwise.
RatingInputs == {<<>>} \cup {<<r>> : r \in (MinRating - 2)..(MaxRating + 1)}
ApprovedInputs == {<<>>, <<TRUE>>, <<FALSE>>}
AuthInputs == {"none", "not_bearer", "bad_token", "admin_token"}
PriceInputs == {PremiumPrice, MockPrice2}
ReasonInputs == {"nudity", "quality_issue", "irrelevant", "duplicate"}
RejectionReasonInputs == {"", "Staged footage"}
FileInputs == {"no_file", "no_name", "bad_format", "ok"}
DeliveryInputs == {"invalid_payload", "invalid_signature", "verified"}
COMPLETED == "checkout.session.completed"
EventTypes == {COMPLETED, "payment_intent.created"}
AmountInputs == {p * PaisePerRupee : p \in PriceInputs}

\* The buyer a completed checkout session names (customer_email); the first is
\* the buyer of the repository's purchase fixture.
BuyerEmails == {"buyer@channel.in", "desk@other.in"}

\* The dict process_payment_webhook returns; license_expiry is <<>> or <<iso>>.
NoResult == [status |-> "", error |-> "", video_id |-> "", buyer_email |-> "",
             amount_inr |-> 0, license_expiry |-> <<>>, actions |-> {}]

\* An HTTP response: status code, the "error" or "message" text, for a
\* verification the new_status it reports, for a webhook the result dict.
Response(code, msg, st) ==
    [code |-> code, msg |-> msg, new_status |-> st, result |-> NoResult]
NoResponse == Response(0, "", "")

\* A handler's request and locals; a field keeps its default until the
\* handler assigns it.
NoRequest == [op |-> "", video |-> "", auth |-> "", rating |-> 0,
              approved |-> FALSE, new_status |-> "", price |-> 0,
              email |-> FALSE, delivery |-> "", type |-> "", amount_total |-> 0,
              buyer |-> "", purchase |-> "", requester |-> "", at |-> 0,
              total_frames |-> 0, moderation |-> "", gate |-> "", s3_puts |-> 0,
              rejection_reason |-> "", post |-> "", views |-> 0, new_views |-> 0]

VARIABLES
    videos,         \* the video store: VideoIds -> record (None when absent)
    pc,             \* where each worker is in its handler
    req,            \* the request a worker is serving (its parsed inputs and locals)
    last,           \* the request answered last and its response
    notifications,  \* notify_uploader calls, in order
    nreq,           \* requests issued so far
    now,            \* the clock, in seconds since the start of EpochYear
    total_amount,   \* the argument of a call of calculate_royalty_split
    split,          \* what the call returned, NoSplit before it
    frames,         \* the frames of the video handed to a call of analyze_video
    moderation_result,  \* what the call returned, NoModeration before it
    nudenet,        \* the classifier: "ready", "missing" or "init_failed"
    posts,          \* SAMPLE_POSTS, the public posts and their counters
    trending_posts  \* what the ranking of public_feed gave last, NoFeed before it

vars == <<videos, pc, req, last, notifications, nreq, now, total_amount, split,
          frames, moderation_result, nudenet, posts, trending_posts>>

\* What the handlers of the lifecycle and of the ledger do not write.
others == <<now, total_amount, split, frames, moderation_result, nudenet, posts,
            trending_posts>>

\* -------------------------------------------------------------- datetimes

\* A datetime is its count of seconds since EpochYear-01-01T00:00:00; its ISO
\* 8601 text is the tuple <<year, month, day, hour, minute, second>> of the
\* fields the text spells out.  All datetimes of the model lie in EpochYear,
\* which is not a leap year.  The server's local time is taken to be UTC.
MonthLengths == <<31, 28, 31, 30, 31, 30, 31, 31, 30, 31, 30, 31>>
SecondsPerDay == 24 * 3600

RECURSIVE SumTo(_, _)
SumTo(lengths, n) == IF n = 0 THEN 0 ELSE SumTo(lengths, n - 1) + lengths[n]

\* The days of the year before the first of each month.
DaysBeforeMonth == [month \in 1..12 |-> SumTo(MonthLengths, month - 1)]
DaysBefore(month) == DaysBeforeMonth[month]

\* datetime.fromisoformat (buyer.py:167).
fromisoformat(iso) ==
    (DaysBefore(iso[2]) + iso[3] - 1) * SecondsPerDay
        + iso[4] * 3600 + iso[5] * 60 + iso[6]

\* datetime.isoformat (payments.py:129).
isoformat(t) ==
    LET day == t \div SecondsPerDay
        sec == t % SecondsPerDay
        month == CHOOSE m \in 1..12 :
                     DaysBefore(m) <= day /\ day < DaysBefore(m) + MonthLengths[m]
    IN  <<EpochYear, month, day - DaysBefore(month) + 1,
          sec \div 3600, (sec % 3600) \div 60, sec % 60>>

\* timedelta(days=n) added to a datetime.
timedelta_days(t, n) == t + n * SecondsPerDay

\* ------------------------------------------------------- the video store

db_get_video_by_id(v) == videos[v]

db_create_video(vs, v, price) ==
    [vs EXCEPT ![v] = [exists |-> TRUE, status |-> PENDING, rating |-> <<>>,
                       price |-> price]]

db_admin_verify_video(vs, v, rating, approved) ==
    [vs EXCEPT ![v].status = IF approved THEN APPROVED ELSE REJECTED,
               ![v].rating = <<rating>>]

\* ------------------------------------------------------------ admin routes

\* The decorator calling f whatever the Authorization header.
admin_required_AllowAll(auth) == NoResponse

\* admin.py:26-35: the response of the decorator, NoResponse when it calls f.
admin_required(auth) ==
    CASE auth \in {"none", "not_bearer"} -> Response(401, "Admin auth required", "")
      [] auth = "bad_token" -> Response(401, "Invalid admin token", "")
      [] OTHER -> NoResponse

\* admin.py:100: int(data.get('rating', 0)).
ParseRating(r) == IF r = <<>> THEN 0 ELSE r[1]

\* admin.py:102: data.get('approved', True).
ParseApproved(a) == IF a = <<>> THEN TRUE ELSE a[1]

\* VerifyGuard without its check of the status (admin.py:114-115 left out).
VerifyGuard_NoStatusCheck(rating, video) ==
    IF rating < MinRating \/ rating > MaxRating
    THEN Response(400, "Rating must be 1-5", "")
    ELSE IF ~video.exists
    THEN Response(404, "Video not found", "")
    ELSE NoResponse

\* VerifyGuard with the video fetched and checked before the rating.
VerifyGuard_VideoFirst(rating, video) ==
    IF ~video.exists
    THEN Response(404, "Video not found", "")
    ELSE IF video.status # PENDING
    THEN Response(400, "Video already processed", "")
    ELSE IF rating < MinRating \/ rating > MaxRating
    THEN Response(400, "Rating must be 1-5", "")
    ELSE NoResponse

\* admin.py:106-115: the early returns of verify_video, NoResponse when it
\* goes on to the decision.
VerifyGuard(rating, video) ==
    IF rating < MinRating \/ rating > MaxRating
    THEN Response(400, "Rating must be 1-5", "")
    ELSE IF ~video.exists
    THEN Response(404, "Video not found", "")
    ELSE IF video.status # PENDING
    THEN Response(400, "Video already processed", "")
    ELSE NoResponse

\* Decision by the approved flag alone.
Decision_ApprovedOnly(approved, rating) ==
    IF approved THEN APPROVED ELSE REJECTED

\* admin.py:118-121.
Decision(approved, rating) ==
    IF approved /\ rating >= ApproveRating THEN APPROVED ELSE REJECTED

\* admin.py:221-230: the call carries the video, the status, the rating and
\* the reason; the message it logs names the video and the status, the rating
\* for an approval, the reason (when there is one) otherwise.
notify_uploader(v, status, rating, reason) ==
    [video |-> v, status |-> status, rating |-> rating, reason |-> reason,
     message |-> [video |-> v, status |-> status,
                  rating |-> IF status = APPROVED THEN <<rating>> ELSE <<>>,
                  reason |-> IF status # APPROVED /\ reason # ""
                             THEN <<reason>> ELSE <<>>]]

\* The threads are interchangeable: a request goes to the first idle one.
Dispatch(p) ==
    /\ pc[p] = "idle"
    /\ \A q \in Workers : q < p => pc[q] # "idle"

\* Worker p can be given a request.
Accepts(p) == Dispatch(p) /\ nreq < MaxRequests

\* A worker takes a request: r holds what the handler has parsed of it.
Begin(p, r) ==
    /\ Dispatch(p)
    /\ nreq < MaxRequests
    /\ nreq' = nreq + 1
    /\ req' = [req EXCEPT ![p] = r]
    /\ UNCHANGED others

\* A handler that answers in the step that takes the request.
Answer(p, r, response) ==
    /\ Dispatch(p)
    /\ nreq < MaxRequests
    /\ nreq' = nreq + 1
    /\ last' = [req |-> r, resp |-> response]
    /\ UNCHANGED <<pc, req>>
    /\ UNCHANGED others

\* admin.py:94-121: the decorator, the parse, the early returns, the read of the
\* video and the decision, up to the call that updates the store.
verify_video_check(p) ==
    /\ Accepts(p)
    /\ \E v \in VideoIds, auth \in AuthInputs :
           LET base == [NoRequest EXCEPT !.op = "verify", !.video = v, !.auth = auth]
           IN  IF admin_required(auth) # NoResponse
               THEN /\ Answer(p, base, admin_required(auth))
                    /\ UNCHANGED <<videos, notifications>>
               ELSE \E ri \in RatingInputs, ai \in ApprovedInputs,
                       rejection_reason \in RejectionReasonInputs :
                   LET rating == ParseRating(ri)
                       approved == ParseApproved(ai)
                       video == db_get_video_by_id(v)
                       parsed == [base EXCEPT !.rating = rating, !.approved = approved,
                                              !.rejection_reason = rejection_reason]
                   IN  IF VerifyGuard(rating, video) # NoResponse
                       THEN /\ Answer(p, parsed, VerifyGuard(rating, video))
                            /\ UNCHANGED <<videos, notifications>>
                       ELSE /\ Begin(p, [parsed EXCEPT
                                           !.new_status = Decision(approved, rating)])
                            /\ pc' = [pc EXCEPT ![p] = "verify_update"]
                            /\ UNCHANGED <<videos, last, notifications>>

\* verify_video_update with the rating left out of the update.
verify_video_update_NoRating(p) ==
    /\ pc[p] = "verify_update"
    /\ videos' = [videos EXCEPT ![req[p].video].status = req[p].new_status]
    /\ notifications' = Append(notifications,
           notify_uploader(req[p].video, req[p].new_status, req[p].rating,
                           req[p].rejection_reason))
    /\ last' = [req |-> req[p],
                resp |-> Response(200, "Video processed successfully",
                                  req[p].new_status)]
    /\ pc' = [pc EXCEPT ![p] = "idle"]
    /\ req' = [req EXCEPT ![p] = NoRequest]
    /\ UNCHANGED nreq
    /\ UNCHANGED others

\* admin.py:123-146: the update of the store, the notification, the response.
verify_video_update(p) ==
    /\ pc[p] = "verify_update"
    /\ videos' = db_admin_verify_video(videos, req[p].video, req[p].rating,
                                       req[p].new_status = APPROVED)
    /\ notifications' = Append(notifications,
           notify_uploader(req[p].video, req[p].new_status, req[p].rating,
                           req[p].rejection_reason))
    /\ last' = [req |-> req[p],
                resp |-> Response(200, "Video processed successfully",
                                  req[p].new_status)]
    /\ pc' = [pc EXCEPT ![p] = "idle"]
    /\ req' = [req EXCEPT ![p] = NoRequest]
    /\ UNCHANGED nreq
    /\ UNCHANGED others

\* admin.py:152-177: behind the decorator, the handler calls
\* verify_video(video_id, {...}) with RejectCallArgs positional arguments;
\* verify_video (admin.py:96) takes VerifyVideoParams, so the call raises
\* TypeError and the handler's except answers 500.  (Were the call bound, the
\* body of verify_video would parse the rating of this request's JSON, which
\* carries none.)
reject_video(p) ==
    /\ Accepts(p)
    /\ \E v \in VideoIds, auth \in AuthInputs :
           LET base == [NoRequest EXCEPT !.op = "reject", !.video = v, !.auth = auth]
           IN  /\ IF admin_required(auth) # NoResponse
                  THEN Answer(p, base, admin_required(auth))
                  ELSE \E reason \in ReasonInputs :
                           Answer(p, base,
                               IF RejectCallArgs # VerifyVideoParams
                               THEN Response(500, "Reject failed", "")
                               ELSE VerifyGuard(ParseRating(<<>>), db_get_video_by_id(v)))
               /\ UNCHANGED <<videos, notifications>>

\* --------------------------------------------------------------- moderation

\* A score is a count of hundredths.  The scores the detector reports here
\* are even, so that the mean over the one or two detections of a frame is a
\* whole count of hundredths.
ScoreInputs == {30, NudityThreshold, 90}

\* Two of the classes NudeNet reports.
Labels == {"FEMALE_BREAST_EXPOSED", "FACE_FEMALE"}

Detections == [label : Labels, score : ScoreInputs]
DetectionLists ==
    {<<>>} \cup {<<d>> : d \in Detections}
           \cup {<<d, e>> : d \in Detections, e \in Detections}

\* A frame is what self.detector.detect reports for it, and whether the call
\* of it in detect_nudity and the call in detect_exposed_parts raise.
FrameInputs ==
    [results : DetectionLists, nudity_raise : {FALSE}, parts_raise : BOOLEAN]

\* moderation.py:16-21, 36-47: NudeNet is imported and NudeDetector() built
\* ("ready"), or the import fails ("missing"), or NudeDetector() raises
\* ("init_failed"); self.detector is None unless it is ready.
NudeNetInputs == {"ready", "missing", "init_failed"}
NUDENET_AVAILABLE == nudenet # "missing"
detector == nudenet = "ready"

RECURSIVE SumUnsafe(_)
SumUnsafe(results) ==
    IF results = <<>> THEN 0
    ELSE (IF Head(results).score > UnsafeFloor THEN Head(results).score ELSE 0)
             + SumUnsafe(Tail(results))

Min(a, b) == IF a < b THEN a ELSE b
Max(a, b) == IF a > b THEN a ELSE b

\* moderation.py:67-80: the 'unsafe' entry.
detect_nudity(frame) ==
    IF ~detector \/ frame.nudity_raise
    THEN 0
    ELSE Min(FullScore, SumUnsafe(frame.results) \div Max(1, Len(frame.results)))

\* moderation.py:82-89.
detect_exposed_parts(frame) ==
    IF ~detector \/ frame.parts_raise THEN <<>> ELSE frame.results

\* moderation.py:104-112: the scores and the parts the loop collects.
RECURSIVE nudity_scores(_)
nudity_scores(fs) ==
    IF fs = <<>> THEN <<>>
    ELSE <<detect_nudity(Head(fs))>> \o nudity_scores(Tail(fs))

RECURSIVE all_exposed_parts(_)
all_exposed_parts(fs) ==
    IF fs = <<>> THEN <<>>
    ELSE detect_exposed_parts(Head(fs)) \o all_exposed_parts(Tail(fs))

\* moderation.py:121, max(nudity_scores).
RECURSIVE max(_)
max(scores) ==
    IF Len(scores) = 1 THEN scores[1] ELSE Max(Head(scores), max(Tail(scores)))

\* The test of the threshold with the threshold itself counted as nude.
is_nude_AtThreshold(max_nudity) == max_nudity >= NudityThreshold

\* moderation.py:125.
is_nude(max_nudity) == max_nudity > NudityThreshold

\* moderation.py:126-129.
has_explicit_parts(parts) ==
    \E i \in 1..Len(parts) : parts[i].score > PartThreshold

\* moderation.py:146-154.
get_rejection_reason(nude, explicit) ==
    IF nude /\ explicit THEN "Graphic nudity + explicit parts detected"
    ELSE IF nude THEN "High nudity probability detected"
    ELSE IF explicit THEN "Explicit body parts detected"
    ELSE "Content approved - safe for NewsHub"

\* The dict analyze_video returns; max_nudity_score is <<>> when the dict
\* has no such key.
NoModeration == [approved |-> FALSE, reason |-> "", max_nudity_score |-> <<>>,
                 total_frames |-> 0, exposed_parts_count |-> 0,
                 nudity_detected |-> FALSE, explicit_parts_detected |-> FALSE,
                 nudenet_available |-> <<>>]

\* moderation.py:103-144: the analysis of the frames extracted; the mean of
\* the scores is left out.
analyze_frames(fs) ==
    LET max_nudity == max(nudity_scores(fs))
        nude == is_nude(max_nudity)
        explicit == has_explicit_parts(all_exposed_parts(fs))
    IN  [approved |-> ~(nude \/ explicit),
         reason |-> get_rejection_reason(nude, explicit),
         max_nudity_score |-> <<max_nudity>>,
         total_frames |-> Len(fs),
         exposed_parts_count |-> Len(all_exposed_parts(fs)),
         nudity_detected |-> nude,
         explicit_parts_detected |-> explicit,
         nudenet_available |-> <<NUDENET_AVAILABLE>>]

\* analyze_video approving a video that yields no frame.
analyze_video_NoFramesApproved(fs) ==
    IF fs = <<>>
    THEN [NoModeration EXCEPT
             !.approved = TRUE,
             !.max_nudity_score = <<0>>,
             !.reason = get_rejection_reason(FALSE, FALSE)]
    ELSE analyze_frames(fs)

\* moderation.py:91-144, for a video file that exists (upload_video has just
\* saved it).
analyze_video(fs) ==
    IF fs = <<>>
    THEN [NoModeration EXCEPT !.reason = "No frames extracted"]
    ELSE analyze_frames(fs)

\* moderation.py:160-162: a call of the gate on the frames drawn at the start.
moderate_upload ==
    /\ moderation_result = NoModeration
    /\ moderation_result' = analyze_video(frames)
    /\ UNCHANGED <<videos, pc, req, last, notifications, nreq, now, total_amount,
                   split, frames, nudenet, posts, trending_posts>>

\* ------------------------------------------------------------ upload route

\* The videos uploaded: one that yields no frame, one with a frame in which
\* nothing is detected, one with a frame of a detection of score 90.
UploadInputs ==
    {<<>>,
     <<[results |-> <<>>, nudity_raise |-> FALSE, parts_raise |-> FALSE]>>,
     <<[results |-> <<[label |-> "FEMALE_BREAST_EXPOSED", score |-> 90]>>,
        nudity_raise |-> FALSE, parts_raise |-> FALSE]>>}

\* upload.py:191-196, 103-106: upload_to_s3 is called for the video and then
\* for the thumbnail; either call may raise.
S3Inputs == {"ok", "video_fails", "thumbnail_fails"}

\* The objects the two calls have stored when the handler leaves them.
s3_tasks(s3) ==
    CASE s3 = "video_fails" -> 0
      [] s3 = "thumbnail_fails" -> 1
      [] OTHER -> 2

\* upload.py:93: the test of the critical gate.
moderation_rejects_Never(result) == FALSE
moderation_rejects(result) == ~result.approved

\* upload.py:47-145; the outcome of the transfer to object storage (an
\* exception there is answered 500) is an input here.  The answer to a
\* rejection reads moderation_result['max_nudity_score'] (upload.py:98): for a
\* result without that key the read raises KeyError, which the handler's
\* except answers 500.
upload_video(p) ==
    /\ Accepts(p)
    /\ LET base == [NoRequest EXCEPT !.op = "upload"]
       IN  \/ /\ \E file \in FileInputs \ {"ok"} :
                    Answer(p, base, Response(400,
                         CASE file = "no_file" -> "No video file provided"
                           [] file = "no_name" -> "No video selected"
                           [] OTHER -> "Invalid video format. Use MP4/MOV", ""))
              /\ UNCHANGED <<videos, notifications>>
           \/ \E price \in PriceInputs, video_file \in UploadInputs :
                LET result == analyze_video(video_file)
                    r == [base EXCEPT !.price = price,
                                      !.total_frames = Len(video_file),
                                      !.moderation = result.reason,
                                      !.gate = IF result.approved
                                               THEN "approved" ELSE "rejected"]
                IN  IF moderation_rejects(result)
                    THEN /\ Answer(p, r,
                               IF result.max_nudity_score = <<>>
                               THEN Response(500, "Upload failed", "")
                               ELSE Response(400, "Content rejected by AI moderation", ""))
                         /\ UNCHANGED <<videos, notifications>>
                    ELSE \E s3 \in S3Inputs :
                           IF s3 # "ok"
                           THEN /\ Answer(p, [r EXCEPT !.s3_puts = s3_tasks(s3)],
                                          Response(500, "Upload failed", ""))
                                /\ UNCHANGED <<videos, notifications>>
                           ELSE \E v \in VideoIds :
                                  /\ ~videos[v].exists
                                  /\ Answer(p, [r EXCEPT !.video = v,
                                                         !.s3_puts = s3_tasks(s3)],
                                            Response(200,
                                                "Awaiting admin verification (24-48hr)",
                                                PENDING))
                                  /\ videos' = db_create_video(videos, v, price)
                                  /\ UNCHANGED notifications

\* ------------------------------------------------------------- buyer routes

\* buyer.py:227-236: the lookup buy_video uses; it does not read the store.
get_video_by_id(v) ==
    IF v = "video-001"
    THEN [exists |-> TRUE, status |-> APPROVED, rating |-> <<>>,
          price |-> PremiumPrice]
    ELSE None

\* payments.py:187: the keyword parameters create_video_checkout takes, and
\* buyer.py:100-104: the keywords buy_video passes.
CheckoutParams == {"video_id", "buyer_email"}
CheckoutCallArgs == {"video_id", "buyer_email", "price_tier"}

\* buyer.py:83-118.  The call of create_video_checkout passes a keyword the
\* helper does not take: it raises TypeError before any session is created,
\* and the handler's except answers 500.
buy_video(p) ==
    /\ Accepts(p)
    /\ \E v \in VideoIds, email \in BOOLEAN :
           LET r == [NoRequest EXCEPT !.op = "buy", !.video = v, !.email = email]
               video == get_video_by_id(v)
           IN  /\ Answer(p, r,
                    IF ~email
                    THEN Response(400, "Buyer email required", "")
                    ELSE IF ~video.exists \/ video.status # APPROVED
                    THEN Response(404, "Video not available for purchase", "")
                    ELSE IF ~(CheckoutCallArgs \subseteq CheckoutParams)
                    THEN Response(500, "Payment initiation failed", "")
                    ELSE Response(200, "checkout", ""))
               /\ UNCHANGED <<videos, notifications>>

\* ---------------------------------------------------------------- payments

\* An amount of money is a Decimal with three decimal places, held as its
\* count of thousandths; str() of a float with at most three decimal places
\* spells it exactly, so Decimal(str(total_amount)) is that amount.
AmountScale == 1000
MaxAmount == 200
TotalInputs ==
    ((0 - MaxAmount)..MaxAmount) \cup {p * AmountScale : p \in PriceInputs}

\* payments.py:35-38: Decimal("0.60") and Decimal("0.40"), in hundredths.
ROYALTY_SPLIT == [uploader |-> 60, platform |-> 40]

\* The result of a call: the dict it returned (shares in hundredths of a
\* rupee), or the exception it raised.
NoSplit == [raised |-> "", total |-> 0, uploader_share |-> 0,
            platform_share |-> 0, currency |-> ""]

Abs(x) == IF x < 0 THEN 0 - x ELSE x
Sign(x) == IF x < 0 THEN 0 - 1 ELSE 1

\* Rounding towards zero.
quantize_Truncate(x, drop) == Sign(x) * (Abs(x) \div drop)

\* Rounding to the nearest, ties away from zero (ROUND_HALF_UP).
quantize_HalfUp(x, drop) ==
    Sign(x) * ((Abs(x) \div drop) + IF 2 * (Abs(x) % drop) >= drop THEN 1 ELSE 0)

\* payments.py:95-96: Decimal.quantize(Decimal('0.01')) of x / (100 * drop),
\* the result in hundredths.  quantize rounds as the decimal context says;
\* the module sets no context, so this is the default, ROUND_HALF_EVEN.
quantize(x, drop) ==
    LET q == Abs(x) \div drop
        r == Abs(x) % drop
        up == 2 * r > drop \/ (2 * r = drop /\ q % 2 = 1)
    IN  Sign(x) * (IF up THEN q + 1 ELSE q)

\* payments.py:87-98.  total * split is exact, with five decimal places; the
\* quantize drops the three after the second.
calculate_royalty_split(total) ==
    [NoSplit EXCEPT
        !.total = total,
        !.uploader_share = quantize(total * ROYALTY_SPLIT.uploader, AmountScale),
        !.platform_share = quantize(total * ROYALTY_SPLIT.platform, AmountScale),
        !.currency = "INR"]

\* A call of calculate_royalty_split on the argument drawn at the start.
royalty_call ==
    /\ split = NoSplit
    /\ split' = calculate_royalty_split(total_amount)
    /\ UNCHANGED <<videos, pc, req, last, notifications, nreq, now, total_amount>>
    /\ UNCHANGED <<frames, moderation_result, nudenet, posts, trending_posts>>

SettlementActions ==
    {"mark_video_sold", "create_purchase_record", "notify_uploader",
     "queue_royalty_payout"}

\* process_payment_webhook with the license running out at the payment.
process_payment_webhook_NoTerm(delivery, type, v, amount_total, buyer, t) ==
    IF delivery = "invalid_payload"
    THEN [NoResult EXCEPT !.error = "Invalid payload"]
    ELSE IF delivery = "invalid_signature"
    THEN [NoResult EXCEPT !.error = "Invalid signature"]
    ELSE IF type = COMPLETED
    THEN [NoResult EXCEPT !.status = "payment_confirmed", !.video_id = v,
                          !.buyer_email = buyer,
                          !.amount_inr = amount_total \div PaisePerRupee,
                          !.license_expiry = <<isoformat(t)>>,
                          !.actions = SettlementActions]
    ELSE [NoResult EXCEPT !.status = "ignored"]

\* process_payment_webhook settling on every verified event, whatever its type.
process_payment_webhook_AnyType(delivery, type, v, amount_total, buyer, t) ==
    IF delivery = "invalid_payload"
    THEN [NoResult EXCEPT !.error = "Invalid payload"]
    ELSE IF delivery = "invalid_signature"
    THEN [NoResult EXCEPT !.error = "Invalid signature"]
    ELSE [NoResult EXCEPT !.status = "payment_confirmed", !.video_id = v,
                          !.buyer_email = buyer,
                          !.amount_inr = amount_total \div PaisePerRupee,
                          !.license_expiry =
                              <<isoformat(timedelta_days(t, LicenseDays))>>,
                          !.actions = SettlementActions]

\* payments.py:100-141: the dict the webhook handler returns, t being
\* datetime.now().  amount_total is in paise, a multiple of PaisePerRupee
\* here, so the division is exact.
process_payment_webhook(delivery, type, v, amount_total, buyer, t) ==
    IF delivery = "invalid_payload"
    THEN [NoResult EXCEPT !.error = "Invalid payload"]
    ELSE IF delivery = "invalid_signature"
    THEN [NoResult EXCEPT !.error = "Invalid signature"]
    ELSE IF type = COMPLETED
    THEN [NoResult EXCEPT !.status = "payment_confirmed", !.video_id = v,
                          !.buyer_email = buyer,
                          !.amount_inr = amount_total \div PaisePerRupee,
                          !.license_expiry =
                              <<isoformat(timedelta_days(t, LicenseDays))>>,
                          !.actions = SettlementActions]
    ELSE [NoResult EXCEPT !.status = "ignored"]

\* app.py:179-192: the result is returned with status 200; nothing is written.
stripe_webhook(p) ==
    /\ Accepts(p)
    /\ \/ \E delivery \in DeliveryInputs \ {"verified"} :
            Answer(p, [NoRequest EXCEPT !.op = "webhook", !.delivery = delivery],
                   [Response(200, "", "") EXCEPT
                      !.result = process_payment_webhook(delivery, "", "", 0, "", now)])
       \/ \E type \in EventTypes, v \in VideoIds, amt \in AmountInputs :
            \E buyer \in IF type = COMPLETED THEN BuyerEmails ELSE {""} :
               Answer(p, [NoRequest EXCEPT !.op = "webhook", !.delivery = "verified",
                             !.type = type, !.video = v, !.amount_total = amt,
                             !.buyer = buyer, !.at = now],
                      [Response(200, "", "") EXCEPT
                         !.result = process_payment_webhook("verified", type, v, amt,
                                                            buyer, now)])
    /\ UNCHANGED <<videos, notifications>>

\* ------------------------------------------------------------ license access

\* buyer.py:138-139 and 245: the dates of the purchase fixture.
PurchaseDate == <<EpochYear, 2, 25, 13, 0, 0>>
ExpiryDate == <<EpochYear, 5, 26, 13, 0, 0>>

PurchaseIds == {"purchase-001", "purchase-002"}
BuyerIds == {"buyer-001", "buyer-002"}

NoPurchase == [exists |-> FALSE, buyer_id |-> "", expiry_date |-> <<>>]

\* buyer.py:238-247.
get_purchase_by_id(purchase_id) ==
    IF purchase_id = "purchase-001"
    THEN [exists |-> TRUE, buyer_id |-> "buyer-001", expiry_date |-> ExpiryDate]
    ELSE NoPurchase

\* The test of the expiry with the expiry instant itself counted as expired.
LicenseExpired_AtExpiry(t, expiry) == t >= expiry

\* buyer.py:168: datetime.now(expiry.tzinfo) > expiry.
LicenseExpired(t, expiry) == t > expiry

\* buyer.py:155-183.  requester is the buyer the Authorization header of the
\* request identifies; the handler reads the header (buyer.py:159) and takes
\* the buyer from the constant of buyer.py:160.
download_license(p) ==
    /\ Accepts(p)
    /\ \E purchase_id \in PurchaseIds, requester \in BuyerIds :
           LET r == [NoRequest EXCEPT !.op = "download", !.purchase = purchase_id,
                                      !.requester = requester, !.at = now]
               buyer_id == "buyer-001"
               purchase == get_purchase_by_id(purchase_id)
           IN  /\ Answer(p, r,
                    IF ~purchase.exists \/ purchase.buyer_id # buyer_id
                    THEN Response(403, "Unauthorized", "")
                    ELSE IF LicenseExpired(now, fromisoformat(purchase.expiry_date))
                    THEN Response(403, "License expired", "")
                    ELSE Response(200, "download", ""))
               /\ UNCHANGED <<videos, notifications>>

\* The instants at which the clock is read: the purchase of the fixture, and
\* the seconds around the expiry of its license.
MaxLate == 2
ClockPoints ==
    {fromisoformat(PurchaseDate)}
        \cup {fromisoformat(ExpiryDate) + d : d \in (0 - 1)..MaxLate}

\* Time passes to the next instant at which the clock is read.
Tick ==
    /\ \E t \in ClockPoints :
          /\ t > now
          /\ \A u \in ClockPoints : u > now => t <= u
          /\ now' = t
    /\ UNCHANGED <<videos, pc, req, last, notifications, nreq>>
    /\ UNCHANGED <<total_amount, split, frames, moderation_result, nudenet,
                   posts, trending_posts>>

\* --------------------------------------------------------------- public feed

\* feed.py:21-54: the posts of the fixture; created_at is the ISO text.
SAMPLE_POSTS ==
    <<[id |-> "post-001", views |-> 12543, likes |-> 2847,
       created_at |-> <<EpochYear, 2, 25, 14, 30, 0>>],
      [id |-> "post-002", views |-> 8923, likes |-> 1567,
       created_at |-> <<EpochYear, 2, 24, 19, 15, 0>>]>>

\* The ranking public_feed computes: the posts in order, or the exception the
\* computation raised.
NoFeed == [raised |-> "", order |-> <<>>, called |-> FALSE]

\* feed.py:74-75: the seconds between datetime.now() and created_at.
age(post, t) == t - fromisoformat(post.created_at)

\* feed.py:74-75: (1 / age + 1), the division first: it raises
\* ZeroDivisionError at age 0, and is the fraction (1 + age) / age otherwise
\* (written with a positive denominator for a created_at ahead of the clock).
fresh(a) ==
    [raised |-> a = 0,
     num |-> IF a > 0 THEN 1 + a ELSE IF a < 0 THEN 0 - (1 + a) ELSE 0,
     den |-> IF a < 0 THEN 0 - a ELSE a]

\* feed.py:71-76: the sort key, views * 0.6 + likes * 0.3 + fresh * 0.1, kept
\* exactly as ten times its value: a whole part, and a fraction num / den
\* below one.
key(post, t) ==
    LET f == fresh(age(post, t))
        weight == ViewWeight * post.views + LikeWeight * post.likes
    IN  IF f.raised
        THEN [raised |-> TRUE, whole |-> weight, num |-> 0, den |-> 1]
        ELSE [raised |-> FALSE,
              whole |-> weight + ((FreshWeight * f.num) \div f.den),
              num |-> (FreshWeight * f.num) % f.den, den |-> f.den]

greater(k1, k2) ==
    \/ k1.whole > k2.whole
    \/ k1.whole = k2.whole /\ k1.num * k2.den > k2.num * k1.den

\* sorted(..., reverse=True) keeps the elements of equal key in their
\* original order: each post goes behind the posts whose key is not smaller.
RECURSIVE insert(_, _, _)
insert(post, s, t) ==
    IF s = <<>>
    THEN <<post>>
    ELSE IF greater(key(post, t), key(Head(s), t))
         THEN <<post>> \o s
         ELSE <<Head(s)>> \o insert(post, Tail(s), t)

RECURSIVE sorted(_, _)
sorted(s, t) ==
    IF s = <<>>
    THEN <<>>
    ELSE insert(s[Len(s)], sorted(SubSeq(s, 1, Len(s) - 1), t), t)

\* feed.py:69-78: the ranking, or the exception of a key.
rank(ps, t) ==
    IF \E i \in 1..Len(ps) : key(ps[i], t).raised
    THEN [raised |-> "ZeroDivisionError", order |-> <<>>, called |-> TRUE]
    ELSE [raised |-> "", order |-> sorted(ps, t), called |-> TRUE]

\* The post ids a view is recorded for: the two of the fixture, and one that
\* names no post.
PostIdInputs == {"post-001", "post-002", "post-404"}

\* feed.py:131: next((p for p in SAMPLE_POSTS if p['id'] == post_id), None),
\* as the index of the post, 0 for None.
find_post(post_id) ==
    IF \E i \in 1..Len(posts) : posts[i].id = post_id
    THEN CHOOSE i \in 1..Len(posts) : posts[i].id = post_id
    ELSE 0

\* feed.py:122-133: the request is parsed (a request without a JSON body
\* raises at data.get and is answered 500), the post is looked up, and
\* post['views'] += 1 reads the counter; a request for an unknown post is
\* answered with new_views 0.
record_view_read(p) ==
    /\ Accepts(p)
    /\ \E post_id \in PostIdInputs, json \in BOOLEAN :
          LET base == [NoRequest EXCEPT !.op = "record_view", !.post = post_id]
              post == find_post(post_id)
          IN  IF ~json
              THEN /\ Answer(p, base, Response(500, "Failed to record view", ""))
                   /\ UNCHANGED <<videos, notifications>>
              ELSE IF post = 0
              THEN /\ Answer(p, base, Response(200, "", ""))
                   /\ UNCHANGED <<videos, notifications>>
              ELSE /\ Begin(p, [base EXCEPT !.views = posts[post].views])
                   /\ pc' = [pc EXCEPT ![p] = "view_write"]
                   /\ UNCHANGED <<videos, last, notifications>>

\* feed.py:133-143: post['views'] += 1 stores the value it read plus one, and
\* the response reports the counter.
record_view_write(p) ==
    /\ pc[p] = "view_write"
    /\ LET post == find_post(req[p].post)
       IN  /\ posts' = [posts EXCEPT ![post].views = req[p].views + 1]
           /\ last' = [req |-> [req[p] EXCEPT !.new_views = posts'[post].views],
                       resp |-> Response(200, "", "")]
    /\ pc' = [pc EXCEPT ![p] = "idle"]
    /\ req' = [req EXCEPT ![p] = NoRequest]
    /\ UNCHANGED <<videos, notifications, nreq, now, total_amount, split, frames,
                   moderation_result, nudenet, trending_posts>>

\* feed.py:57-101: the ranking of the posts at the time of the request; the
\* page of the response is cut from it in its order, and an exception is
\* answered 500.  The handler writes no post.
public_feed ==
    /\ nreq < MaxRequests
    /\ nreq' = nreq + 1
    /\ trending_posts' = rank(posts, now)
    /\ last' = [req |-> [NoRequest EXCEPT !.op = "public_feed"],
                resp |-> IF trending_posts'.raised # ""
                         THEN Response(500, "Failed to load feed", "")
                         ELSE Response(200, "", "")]
    /\ UNCHANGED <<videos, pc, req, notifications, now, total_amount, split,
                   frames, moderation_result, nudenet, posts>>

NoLast == [req |-> NoRequest, resp |-> NoResponse]

Init ==
    /\ videos = [v \in VideoIds |-> None]
    /\ pc = [p \in Workers |-> "idle"]
    /\ req = [p \in Workers |-> NoRequest]
    /\ last = NoLast
    /\ notifications = <<>>
    /\ nreq = 0
    /\ now = fromisoformat(PurchaseDate)
    /\ total_amount = 0
    /\ split = NoSplit
    /\ frames = <<>>
    /\ moderation_result = NoModeration
    /\ nudenet = "ready"
    /\ posts = SAMPLE_POSTS
    /\ trending_posts = NoFeed

Next ==
    \E p \in Workers :
        \/ upload_video(p)
        \/ verify_video_check(p)
        \/ verify_video_update(p)
        \/ reject_video(p)
        \/ buy_video(p)
        \/ stripe_webhook(p)

Spec == Init /\ [][Next]_vars

\* The ledger and the license access: the store holds a video an admin has
\* approved (uploaded at some price, approved with some rating, the uploader
\* notified), buyers act on it and time passes.
InitLedger ==
    /\ \E price \in PriceInputs, rating \in ApproveRating..MaxRating :
          /\ videos = [v \in VideoIds |->
                          IF v = "video-001"
                          THEN [exists |-> TRUE, status |-> APPROVED,
                                rating |-> <<rating>>, price |-> price]
                          ELSE None]
          /\ notifications = <<notify_uploader("video-001", APPROVED, rating, "")>>
    /\ pc = [p \in Workers |-> "idle"]
    /\ req = [p \in Workers |-> NoRequest]
    /\ last = NoLast
    /\ nreq = 0
    /\ now = fromisoformat(PurchaseDate)
    /\ total_amount = 0
    /\ split = NoSplit
    /\ frames = <<>>
    /\ moderation_result = NoModeration
    /\ nudenet = "ready"
    /\ posts = SAMPLE_POSTS
    /\ trending_posts = NoFeed

NextLedger ==
    \/ Tick
    \/ \E p \in Workers :
          \/ buy_video(p)
          \/ stripe_webhook(p)
          \/ download_license(p)

SpecLedger == InitLedger /\ [][NextLedger]_vars

\* The royalty calculator, called once on each amount of TotalInputs.
InitRoyalty ==
    /\ videos = [v \in VideoIds |-> None]
    /\ pc = [p \in Workers |-> "idle"]
    /\ req = [p \in Workers |-> NoRequest]
    /\ last = NoLast
    /\ notifications = <<>>
    /\ nreq = 0
    /\ now = fromisoformat(PurchaseDate)
    /\ total_amount \in TotalInputs
    /\ split = NoSplit
    /\ frames = <<>>
    /\ moderation_result = NoModeration
    /\ nudenet = "ready"
    /\ posts = SAMPLE_POSTS
    /\ trending_posts = NoFeed

NextRoyalty == royalty_call

SpecRoyalty == InitRoyalty /\ [][NextRoyalty]_vars

\* The moderation gate, called once on each video of up to MaxFrames frames.
MaxFrames == 2
VideoInputs == UNION {[1..n -> FrameInputs] : n \in 0..MaxFrames}

InitModeration ==
    /\ videos = [v \in VideoIds |-> None]
    /\ pc = [p \in Workers |-> "idle"]
    /\ req = [p \in Workers |-> NoRequest]
    /\ last = NoLast
    /\ notifications = <<>>
    /\ nreq = 0
    /\ now = fromisoformat(PurchaseDate)
    /\ total_amount = 0
    /\ split = NoSplit
    /\ frames \in VideoInputs
    /\ moderation_result = NoModeration
    /\ nudenet = "ready"
    /\ posts = SAMPLE_POSTS
    /\ trending_posts = NoFeed

NextModeration == moderate_upload

SpecModeration == InitModeration /\ [][NextModeration]_vars

\* The moderation gate with the classifier ready, missing or failed at its
\* initialisation, on videos whose frames show nothing or one detection of
\* score 90 and whose detection calls may raise.
ClassifierFrameInputs ==
    [results : {<<>>, <<[label |-> "FEMALE_BREAST_EXPOSED", score |-> 90]>>},
     nudity_raise : BOOLEAN, parts_raise : BOOLEAN]
ClassifierVideoInputs ==
    UNION {[1..n -> ClassifierFrameInputs] : n \in 0..MaxFrames}

InitClassifier ==
    /\ videos = [v \in VideoIds |-> None]
    /\ pc = [p \in Workers |-> "idle"]
    /\ req = [p \in Workers |-> NoRequest]
    /\ last = NoLast
    /\ notifications = <<>>
    /\ nreq = 0
    /\ now = fromisoformat(PurchaseDate)
    /\ total_amount = 0
    /\ split = NoSplit
    /\ frames \in ClassifierVideoInputs
    /\ moderation_result = NoModeration
    /\ nudenet \in NudeNetInputs
    /\ posts = SAMPLE_POSTS
    /\ trending_posts = NoFeed

SpecClassifier == InitClassifier /\ [][NextModeration]_vars

\* The public feed over up to MaxPosts posts of few views and likes, created
\* in the second of the request, one second or one hour before it.
MaxPosts == 2
PostIds == <<"post-001", "post-002", "post-003", "post-004">>
ViewInputs == {1, 2}
LikeInputs == {0, 2}
CreatedInputs ==
    {<<EpochYear, 2, 25, 13, 0, 0>>, <<EpochYear, 2, 25, 12, 59, 59>>,
     <<EpochYear, 2, 25, 12, 0, 0>>}
PostInputs == [views : ViewInputs, likes : LikeInputs, created_at : CreatedInputs]
FeedInputs ==
    UNION {{[i \in 1..n |-> [id |-> PostIds[i], views |-> f[i].views,
                             likes |-> f[i].likes,
                             created_at |-> f[i].created_at]] :
               f \in [1..n -> PostInputs]} : n \in 1..MaxPosts}

InitFeed ==
    /\ videos = [v \in VideoIds |-> None]
    /\ pc = [p \in Workers |-> "idle"]
    /\ req = [p \in Workers |-> NoRequest]
    /\ last = NoLast
    /\ notifications = <<>>
    /\ nreq = 0
    /\ now = fromisoformat(PurchaseDate)
    /\ total_amount = 0
    /\ split = NoSplit
    /\ frames = <<>>
    /\ moderation_result = NoModeration
    /\ nudenet = "ready"
    /\ posts \in FeedInputs
    /\ trending_posts = NoFeed

NextFeed == public_feed

SpecFeed == InitFeed /\ [][NextFeed]_vars

\* The view counters of the fixture under concurrent record_view requests and
\* feed reads.
InitViews ==
    /\ videos = [v \in VideoIds |-> None]
    /\ pc = [p \in Workers |-> "idle"]
    /\ req = [p \in Workers |-> NoRequest]
    /\ last = NoLast
    /\ notifications = <<>>
    /\ nreq = 0
    /\ now = fromisoformat(PurchaseDate)
    /\ total_amount = 0
    /\ split = NoSplit
    /\ frames = <<>>
    /\ moderation_result = NoModeration
    /\ nudenet = "ready"
    /\ posts = SAMPLE_POSTS
    /\ trending_posts = NoFeed

NextViews ==
    \/ \E p \in Workers : record_view_read(p) \/ record_view_write(p)
    \/ public_feed

SpecViews == InitViews /\ [][NextViews]_vars

\* ------------------------------------------------------------ properties

\* The step takes a request from the clients.
Taken == nreq' = nreq + 1

\* The request a Taken step takes: answered in the step, or begun by a worker.
TakenReq ==
    IF pc' = pc THEN last'.req ELSE req'[CHOOSE p \in Workers : pc'[p] # pc[p]]

\* The step answers the request it takes.
AnsweredAtOnce == Taken /\ pc' = pc

ValidRating(r) == r \in MinRating..MaxRating

AlreadyProcessed == Response(400, "Video already processed", "")
InvalidRating == Response(400, "Rating must be 1-5", "")
VideoNotAvailable == Response(404, "Video not available for purchase", "")

LegalTransitions ==
    {<<PENDING, APPROVED>>, <<PENDING, REJECTED>>, <<APPROVED, SOLD>>}

\* C1: of two concurrent verifications of a PENDING video with conflicting
\* outcomes exactly one applies its transition: the one that comes to its
\* update when the other has already processed the video with another outcome
\* is answered "already processed" and leaves the status the winner chose.
C1_OneVerificationWins ==
    [][\A p \in Workers :
          (/\ pc[p] = "verify_update"
           /\ pc'[p] = "idle"
           /\ videos[req[p].video].status \notin {PENDING, req[p].new_status})
          => (/\ last'.resp = AlreadyProcessed
              /\ videos'[req[p].video].status = videos[req[p].video].status)]_vars

\* C2: verify_video with a valid rating on a video that is APPROVED, REJECTED
\* or SOLD is answered "already processed" and leaves the store unchanged.
C2_NonPendingIsAlreadyProcessed ==
    [][(/\ Taken
        /\ TakenReq.op = "verify"
        /\ TakenReq.auth = "admin_token"
        /\ ValidRating(TakenReq.rating)
        /\ videos[TakenReq.video].status \in {APPROVED, REJECTED, SOLD})
       => (/\ AnsweredAtOnce
           /\ last'.resp = AlreadyProcessed
           /\ videos' = videos)]_vars

\* C2 witness: a verification with a valid rating of a processed video was
\* answered "already processed".
C2_Witness ==
    /\ last.req.op = "verify"
    /\ ValidRating(last.req.rating)
    /\ videos[last.req.video].status \in {APPROVED, REJECTED}
    /\ last.resp = AlreadyProcessed

C4_DecisionRule ==
    [][/\ (/\ Taken
           /\ TakenReq.op = "verify"
           /\ TakenReq.auth = "admin_token"
           /\ ValidRating(TakenReq.rating)
           /\ videos[TakenReq.video].status = PENDING)
          => ~AnsweredAtOnce
       /\ \A p \in Workers :
            (/\ pc[p] = "verify_update"
             /\ pc'[p] = "idle"
             /\ videos[req[p].video].status = PENDING)
            => LET rule == IF req[p].approved /\ req[p].rating >= 3
                           THEN APPROVED ELSE REJECTED
               IN  /\ videos'[req[p].video].status = rule
                   /\ last'.resp.code = 200
                   /\ last'.resp.new_status = rule]_vars

\* C4 witness: an approval with rating 3, the least that approves, took effect.
C4_Witness ==
    /\ last.req.op = "verify"
    /\ last.resp.code = 200
    /\ last.req.approved
    /\ last.req.rating = 3
    /\ videos[last.req.video].status = APPROVED

\* C5: verify_video with a rating outside 1..5 is answered "rating must be
\* 1-5" whatever the video is (absent, pending or processed), and the store is
\* unchanged.
C5_InvalidRatingFirst ==
    [][(/\ Taken
        /\ TakenReq.op = "verify"
        /\ TakenReq.auth = "admin_token"
        /\ ~ValidRating(TakenReq.rating))
       => (/\ AnsweredAtOnce
           /\ last'.resp = InvalidRating
           /\ videos' = videos)]_vars

\* C5 witness: a verification with rating 0 (the default of a missing rating)
\* of a processed video was answered "rating must be 1-5".
C5_Witness ==
    /\ last.req.op = "verify"
    /\ last.req.rating = 0
    /\ videos[last.req.video].status \in {APPROVED, REJECTED}
    /\ last.resp = InvalidRating

\* C6: a quick-reject by an authenticated admin of a PENDING video moves the
\* video to REJECTED.
C6_QuickRejectRejects ==
    [][(/\ Taken
        /\ TakenReq.op = "reject"
        /\ TakenReq.auth = "admin_token"
        /\ videos[TakenReq.video].status = PENDING)
       => videos'[TakenReq.video].status = REJECTED]_vars

\* C7: a video has a rating if and only if its status is APPROVED, REJECTED
\* or SOLD.
C7_RatingIffProcessed ==
    \A v \in VideoIds :
        videos[v].exists =>
            ((videos[v].rating # <<>>) <=> (videos[v].status \in {APPROVED, REJECTED, SOLD}))

\* C7 witness: a rated, processed video beside a pending one without rating.
C7_Witness ==
    \E v, w \in VideoIds :
        /\ videos[v].status = REJECTED /\ videos[v].rating # <<>>
        /\ videos[w].status = PENDING /\ videos[w].rating = <<>>

\* C8: a purchase request, with a buyer email, for a stored video that is not
\* APPROVED is answered "video not available".
C8_NotApprovedNotAvailable ==
    [][(/\ Taken
        /\ TakenReq.op = "buy"
        /\ TakenReq.email
        /\ videos[TakenReq.video].exists
        /\ videos[TakenReq.video].status # APPROVED)
       => last'.resp = VideoNotAvailable]_vars

\* C9: a payment for an APPROVED video is confirmed only when the amount paid
\* equals the video's price.
C9_ExactAmount ==
    [][(/\ Taken
        /\ TakenReq.op = "webhook"
        /\ TakenReq.delivery = "verified"
        /\ videos[TakenReq.video].status = APPROVED
        /\ last'.resp.result.status = "payment_confirmed")
       => last'.resp.result.amount_inr = videos[TakenReq.video].price]_vars

\* C10: after a checkout.session.completed event for an APPROVED video has
\* been processed the video is SOLD.
C10_SoldAfterPayment ==
    [][(/\ Taken
        /\ TakenReq.op = "webhook"
        /\ TakenReq.delivery = "verified"
        /\ TakenReq.type = COMPLETED
        /\ videos[TakenReq.video].status = APPROVED)
       => videos'[TakenReq.video].status = SOLD]_vars

\* C11: of the payments two different buyers make for the same APPROVED
\* video at most one ends as a purchase: once one buyer's payment has been
\* confirmed, the other buyer's completed checkout for that video is not
\* confirmed.
C11_OnePurchasePerVideo ==
    [][(/\ last.req.op = "webhook"
        /\ last.resp.result.status = "payment_confirmed"
        /\ Taken
        /\ TakenReq.op = "webhook"
        /\ TakenReq.delivery = "verified"
        /\ TakenReq.type = COMPLETED
        /\ TakenReq.video = last.req.video
        /\ TakenReq.buyer # last.req.buyer
        /\ videos[TakenReq.video].status \in {APPROVED, SOLD})
       => last'.resp.result.status # "payment_confirmed"]_vars

Unauthorized == Response(403, "Unauthorized", "")
LicenseExpiredResponse == Response(403, "License expired", "")

\* C13: a download the buyer of the purchase asks for is answered "license
\* expired" at every instant strictly after the expiry of the purchase (the
\* second after it included) and is granted at every instant up to and
\* including the expiry.
C13_ExpiredStrictlyAfterExpiry ==
    [][(/\ Taken
        /\ TakenReq.op = "download"
        /\ get_purchase_by_id(TakenReq.purchase).exists
        /\ TakenReq.requester = get_purchase_by_id(TakenReq.purchase).buyer_id)
       => LET expiry == fromisoformat(get_purchase_by_id(TakenReq.purchase).expiry_date)
          IN  /\ now > expiry => last'.resp = LicenseExpiredResponse
              /\ now <= expiry => last'.resp.code = 200]_vars

\* C13 witness: the buyer of purchase-001 asked for the download one second
\* after the expiry and was answered "license expired".
C13_Witness ==
    /\ last.req.op = "download"
    /\ last.req.purchase = "purchase-001"
    /\ last.req.requester = "buyer-001"
    /\ last.req.at = fromisoformat(ExpiryDate) + 1
    /\ last.resp = LicenseExpiredResponse

\* C14: a download asked for by a buyer other than the buyer of the purchase,
\* or for a purchase that does not exist, is denied at every instant, before
\* the expiry too.
C14_OnlyTheBuyerDownloads ==
    [][(/\ Taken
        /\ TakenReq.op = "download"
        /\ \/ ~get_purchase_by_id(TakenReq.purchase).exists
           \/ TakenReq.requester # get_purchase_by_id(TakenReq.purchase).buyer_id)
       => last'.resp.code = 403]_vars

\* The call has returned or raised.
Called == split # NoSplit

\* C15: for every price p > 0 with up to three decimal places the two shares
\* sum to within 0.02 of p, the uploader's share is 0.60 * p rounded to two
\* decimal places (a hundredth nearest to it) and the platform's share is
\* 0.40 * p rounded to two decimal places.
C15_SharesWithinTolerance ==
    (Called /\ total_amount > 0)
    => /\ split.raised = ""
       /\ Abs((split.uploader_share + split.platform_share) * 1000
                 - total_amount * 100) <= 2 * 1000
       /\ 2 * Abs(split.uploader_share * 1000 - total_amount * 60) <= 1000
       /\ 2 * Abs(split.platform_share * 1000 - total_amount * 40) <= 1000

\* C15 witness: the split of 0.009 is 0.01 and 0.00: its uploader's share,
\* 0.0054, is rounded up to the hundredth nearest to it.
C15_Witness ==
    /\ Called
    /\ total_amount = 9
    /\ split.uploader_share = 1
    /\ split.platform_share = 0

\* C16: calculate_royalty_split of a total that is 0 or negative fails with
\* InvalidAmount and returns no split.
C16_NonPositiveIsInvalidAmount ==
    (Called /\ total_amount <= 0) => split.raised = "InvalidAmount"

\* C17: a share whose third decimal digit is exactly 5 is rounded up to the
\* next hundredth (0.60 * 0.075 = 0.045 gives 0.05), never to the even
\* hundredth below it.
C17_HalfRoundsUp ==
    (/\ Called
     /\ total_amount > 0
     /\ (total_amount * 60) % 1000 \in 500..599)
    => split.uploader_share = (total_amount * 60) \div 1000 + 1

\* C17, as the code has it: a share is rounded to the hundredth nearest to
\* it, upwards whenever more than half a hundredth is dropped (never
\* floored), and a share exactly half way between two hundredths (third
\* decimal digit 5 and nothing after it) goes to the even one of the two:
\* 0.045 gives 0.04, 0.015 gives 0.02.
C17_HalfRoundsToEven ==
    (Called /\ total_amount > 0)
    => LET exact == total_amount * 60
           below == exact \div 1000
           rest == exact % 1000
       IN  /\ rest > 500 => split.uploader_share = below + 1
           /\ rest < 500 => split.uploader_share = below
           /\ rest = 500 => /\ split.uploader_share \in {below, below + 1}
                            /\ split.uploader_share % 2 = 0

\* C17 witness: the uploader's share of 0.075, which is 0.045, is 0.04.
C17_Witness ==
    /\ Called
    /\ total_amount = 75
    /\ split.uploader_share = 4

\* The gate has returned its result.
Moderated == moderation_result # NoModeration

\* The unsafe scores of the frames, as a set.
FrameScores == {detect_nudity(frames[i]) : i \in 1..Len(frames)}

\* The object detections the gate was given.
PartsSeen == {all_exposed_parts(frames)[i] : i \in 1..Len(all_exposed_parts(frames))}

\* The NudeNet classes that name an explicit body part, of those in Labels.
ExplicitLabels == {"FEMALE_BREAST_EXPOSED"}

\* C18: for a non-empty sequence of frame scores and no object detections
\* the gate reports as max score the greatest of the scores, rejects with the
\* reason "High nudity probability detected" exactly when that score is
\* above 0.6, and approves otherwise, a greatest score of 0.6 included.
C18_RejectsAboveThreshold ==
    (Moderated /\ frames # <<>> /\ PartsSeen = {})
    => \E m \in FrameScores :
          /\ \A x \in FrameScores : x <= m
          /\ moderation_result.max_nudity_score = <<m>>
          /\ m > 60 => (/\ ~moderation_result.approved
                        /\ moderation_result.reason
                              = "High nudity probability detected")
          /\ m <= 60 => moderation_result.approved

\* C18 witness: two frames with scores 0.6 and 0.9 and no object detections
\* were rejected for their max score 0.9.
C18_Witness ==
    /\ Moderated
    /\ PartsSeen = {}
    /\ FrameScores = {60, 90}
    /\ moderation_result.max_nudity_score = <<90>>
    /\ ~moderation_result.approved
    /\ moderation_result.reason = "High nudity probability detected"

\* C19: when no frame can be extracted the gate reports approved = false
\* with the reason "No frames extracted", and the upload is answered with an
\* error and creates no video record.
C19_NoFramesNoVideo ==
    [][(/\ Taken
        /\ TakenReq.op = "upload"
        /\ TakenReq.moderation # ""
        /\ TakenReq.total_frames = 0)
       => (/\ TakenReq.moderation = "No frames extracted"
           /\ ~analyze_video(<<>>).approved
           /\ AnsweredAtOnce
           /\ last'.resp.code >= 400
           /\ videos' = videos)]_vars

\* C19 witness: the upload of a video that yields no frame was answered 500
\* and the store holds no video.
C19_Witness ==
    /\ last.req.op = "upload"
    /\ last.req.total_frames = 0
    /\ last.req.moderation = "No frames extracted"
    /\ last.resp = Response(500, "Upload failed", "")
    /\ \A v \in VideoIds : ~videos[v].exists

\* C20: the gate rejects for its object detections only when one of them has
\* a score above 0.7 and the label of an explicit body part: a video whose
\* scores do not reach above the nudity threshold and whose detections above
\* 0.7 all carry other labels is approved.
C20_OnlyExplicitPartsReject ==
    (/\ Moderated
     /\ frames # <<>>
     /\ \A x \in FrameScores : x <= 60
     /\ ~moderation_result.approved)
    => \E part \in PartsSeen : part.score > 70 /\ part.label \in ExplicitLabels

\* The gate could not classify the video: the classifier is not ready, or a
\* detection call on one of its frames raised.
Unclassified ==
    \/ nudenet # "ready"
    \/ \E i \in 1..Len(frames) : frames[i].nudity_raise \/ frames[i].parts_raise

\* C21: when the classifier is unavailable (NudeNet missing, its
\* initialisation failed, or a detection call raised) the gate does not
\* approve the video.
C21_UnclassifiedNotApproved ==
    (Moderated /\ frames # <<>> /\ Unclassified) => ~moderation_result.approved

\* C22: a video record comes into the store only from an upload whose
\* moderation result is approved, and it is PENDING; an upload whose result
\* is not approved is answered with an error, creates no record and stores
\* no object.
C22_OnlyApprovedUploadsAreStored ==
    [][/\ (\A v \in VideoIds :
             (~videos[v].exists /\ videos'[v].exists)
                => (/\ Taken
                    /\ TakenReq.op = "upload"
                    /\ TakenReq.gate = "approved"
                    /\ TakenReq.video = v
                    /\ videos'[v].status = PENDING))
       /\ ((Taken /\ TakenReq.op = "upload" /\ TakenReq.gate = "rejected")
             => (/\ AnsweredAtOnce
                 /\ last'.resp.code >= 400
                 /\ videos' = videos
                 /\ TakenReq.s3_puts = 0))]_vars

\* C22 witness: an upload the gate rejected for its content was answered 400
\* with nothing stored, and an approved upload left a PENDING record.
C22_Witness ==
    /\ last.req.op = "upload"
    /\ last.req.gate = "rejected"
    /\ last.req.moderation = "Graphic nudity + explicit parts detected"
    /\ last.resp = Response(400, "Content rejected by AI moderation", "")
    /\ last.req.s3_puts = 0
    /\ \E v \in VideoIds : videos[v].exists /\ videos[v].status = PENDING

\* The videos whose status the step changes.
Transitions == {v \in VideoIds : videos'[v].status # videos[v].status}

\* C23: a step that changes the status of a video sends exactly one
\* notification, which carries the video, the new status, the rating and the
\* rejection reason; a step that changes no status sends none.
C23_OneNotificationPerTransition ==
    [][IF \E v \in VideoIds : videos[v].exists /\ v \in Transitions
       THEN \E v \in Transitions :
              /\ Len(notifications') = Len(notifications) + 1
              /\ LET n == notifications'[Len(notifications')]
                 IN  /\ n.video = v
                     /\ n.status = videos'[v].status
                     /\ <<n.rating>> = videos'[v].rating
                     /\ n.status = REJECTED => n.reason = last'.req.rejection_reason
       ELSE notifications' = notifications]_vars

\* The recency factor of the ranking rule, 1 / (age + 1), as a fraction.
recencyFactor(a) == [num |-> 1, den |-> a + 1]

\* C24: for every age of zero or more the recency factor public_feed
\* computes is defined, is the factor 1 / (age + 1) of the rule, and lies in
\* (0, 1], so that it adds at most 0.1 to the score.
C24_RecencyInUnitInterval ==
    trending_posts.called
       => \A i \in 1..Len(posts) :
             LET a == age(posts[i], now)
                 f == fresh(a)
             IN  a >= 0
                   => (/\ ~f.raised
                       /\ f.num * recencyFactor(a).den = recencyFactor(a).num * f.den
                       /\ 0 < f.num /\ f.num <= f.den
                       /\ trending_posts.raised = "")

\* Ten times the score of the ranking rule,
\* views * 6 + likes * 3 + 1 / (age + 1), compared exactly.
ScoreGreater(p, q) ==
    LET wp == ViewWeight * p.views + LikeWeight * p.likes
        wq == ViewWeight * q.views + LikeWeight * q.likes
        dp == recencyFactor(age(p, now)).den
        dq == recencyFactor(age(q, now)).den
    IN  (wp - wq) * dp * dq + FreshWeight * (dq - dp) > 0

\* Where the post of an id stands in a sequence of posts.
Position(s, id) == CHOOSE i \in 1..Len(s) : s[i].id = id

\* C25: the ranking of public_feed is the posts in descending order of score,
\* posts of equal score in their original order, of two posts of the same
\* views and likes the more recent first, and ranking the ranked sequence
\* again at the same time gives the same sequence.
C25_StableDescendingRanking ==
    trending_posts.called
       => LET order == trending_posts.order
          IN  /\ trending_posts.raised = ""
              /\ Len(order) = Len(posts)
              /\ \A i \in 1..Len(posts) : \E j \in 1..Len(order) : order[j] = posts[i]
              /\ \A i, j \in 1..Len(order) :
                    i < j => /\ ~ScoreGreater(order[j], order[i])
                             /\ ~ScoreGreater(order[i], order[j])
                                   => Position(posts, order[i].id)
                                         < Position(posts, order[j].id)
              /\ \A i, j \in 1..Len(posts) :
                    (/\ posts[i].views = posts[j].views
                     /\ posts[i].likes = posts[j].likes
                     /\ age(posts[i], now) < age(posts[j], now))
                       => Position(order, posts[i].id) < Position(order, posts[j].id)
              /\ rank(order, now).order = order

\* C26: no step lowers the view count of a post, whatever the interleaving
\* of the reads and writes of concurrent record_view requests and of feed
\* reads, and a feed read changes no counter.
C26_ViewsNeverDecrease ==
    [][/\ \A i \in 1..Len(posts) : posts'[i].views >= posts[i].views
       /\ (trending_posts' # trending_posts \/ last'.req.op = "public_feed")
             => posts' = posts]_vars

\* The event of a delivery: the processor delivers an event with the same
\* type, video, amount and customer each time it delivers it.
Event(r) == <<r.type, r.video, r.amount_total, r.buyer>>

\* C27: when a checkout.session.completed event that has been confirmed is
\* delivered again, the later delivery settles nothing: its result lists no
\* settlement action and reports no confirmed payment.
C27_RedeliverySettlesNothing ==
    [][(/\ last.req.op = "webhook"
        /\ last.req.type = COMPLETED
        /\ last.resp.result.status = "payment_confirmed"
        /\ Taken
        /\ TakenReq.op = "webhook"
        /\ TakenReq.delivery = "verified"
        /\ Event(TakenReq) = Event(last.req))
       => (/\ last'.resp.result.actions = {}
           /\ last'.resp.result.status # "payment_confirmed"
           /\ videos' = videos
           /\ notifications' = notifications)]_vars

\* C28: a webhook delivery whose payload is invalid or whose signature fails
\* is answered with an error result, a verified event of another type than
\* checkout.session.completed with the status "ignored", and in both cases
\* nothing is settled: the result lists no action and no payment, and the
\* store and the notifications stay as they are.
C28_RejectedAndIgnoredSettleNothing ==
    [][(/\ Taken
        /\ TakenReq.op = "webhook"
        /\ (TakenReq.delivery # "verified" \/ TakenReq.type # COMPLETED))
       => LET result == last'.resp.result
          IN  /\ AnsweredAtOnce
              /\ TakenReq.delivery = "invalid_payload"
                    => result.error = "Invalid payload"
              /\ TakenReq.delivery = "invalid_signature"
                    => result.error = "Invalid signature"
              /\ TakenReq.delivery = "verified"
                    => (result.status = "ignored" /\ result.error = "")
              /\ TakenReq.delivery # "verified" => result.status = ""
              /\ result.actions = {}
              /\ result.license_expiry = <<>>
              /\ videos' = videos
              /\ notifications' = notifications]_vars

\* C28 witness: with a video in the store, a verified event of another type
\* was answered "ignored".
C28_Witness ==
    /\ last.req.op = "webhook"
    /\ last.req.delivery = "verified"
    /\ last.req.type # COMPLETED
    /\ last.resp.result.status = "ignored"
    /\ last.resp.result.actions = {}
    /\ \E v \in VideoIds : videos[v].exists

\* C29: a verify or quick-reject request whose Authorization header is not
\* "Bearer <the admin token>" is answered 401 by the decorator before the
\* handler parses anything: no video's status or rating changes and no
\* notification is sent.
C29_NoAdminTokenNoEffect ==
    [][(/\ Taken
        /\ TakenReq.op \in {"verify", "reject"}
        /\ TakenReq.auth # "admin_token")
       => (/\ AnsweredAtOnce
           /\ last'.resp.code = 401
           /\ last'.resp.msg = IF TakenReq.auth = "bad_token"
                               THEN "Invalid admin token"
                               ELSE "Admin auth required"
           /\ TakenReq = [NoRequest EXCEPT !.op = TakenReq.op,
                                           !.video = TakenReq.video,
                                           !.auth = TakenReq.auth]
           /\ videos' = videos
           /\ notifications' = notifications)]_vars

\* C29 witness: a quick-reject of a PENDING video that carried a wrong token
\* was answered 401 and the video is still PENDING and unrated.
C29_Witness ==
    /\ last.req.op = "reject"
    /\ last.req.auth = "bad_token"
    /\ last.resp = Response(401, "Invalid admin token", "")
    /\ videos[last.req.video].exists
    /\ videos[last.req.video].status = PENDING
    /\ videos[last.req.video].rating = <<>>
    /\ notifications = <<>>

====
